---- MODULE Spec2Model ----
(***************************************************************************)
(* Model of the claude-usage menu bar plugin:                              *)
(*   src/src/scrape_usage.py    the scraper (credential resolver, fetcher, *)
(*                              cache writer), run as a subprocess          *)
(*   src/src/claude-usage.5m.py the plugin (cache fallback, migration,     *)
(*                              display-org selection, notification state)  *)
(*                                                                         *)
(* Python values are encoded as follows.                                   *)
(*   dict          a TLA+ record/function whose DOMAIN is the set of keys  *)
(*   None          NoneStr where a string is expected, None where a dict   *)
(*                 is expected (TLC cannot compare a string to a record)   *)
(*   a file        [kind |-> "missing"], [kind |-> "corrupt"] or           *)
(*                 [kind |-> "json", doc |-> <dict>]                        *)
(*   percentages   integers                                                *)
(***************************************************************************)
EXTENDS Integers, Sequences, FiniteSets, TLC

VARIABLES
    config,     \* CONFIG_FILE  (~/.config/claude-usage/config.json)
    cache,      \* CACHE_FILE   (~/.config/claude-usage/last_usage.json)
    state,      \* STATE_FILE   (~/.config/claude-usage/notification_state.json)
    env,        \* what the outside world answers to the run in progress / last run
    pc,         \* "idle" before a run, "done" after it (one-shot specifications)
    scrape,     \* observation of the last run of scrape_usage()
    cycle,      \* observation of the last run of the plugin's main()
    hist,       \* per metric: how far the fire / re-arm / fire-again story has got
    since,      \* per metric: what reconciled cycles have seen since its last alert
    inv         \* the invocations of main() in flight (specification SpecRace)

vars == <<config, cache, state, env, pc, scrape, cycle, hist, since, inv>>

----------------------------------------------------------------------------
(* Python values *)

NoneStr == "<None>"
None == [py |-> "None"]

\* bool(x) for a string-or-None value
Truthy(s) == s /= NoneStr /\ s /= ""

\* a or b
PyOr(a, b) == IF Truthy(a) THEN a ELSE b

\* d.get(k) for a string-valued key
GetStr(d, k) == IF k \in DOMAIN d THEN d[k] ELSE NoneStr

\* d.get(k) for a dict-valued key
GetDict(d, k) == IF k \in DOMAIN d THEN d[k] ELSE None

\* (d.get(k) or {}).get("percent", 0)
PercentOf(d, k) ==
    LET w == GetDict(d, k)
    IN  IF w = None THEN 0
        ELSE IF "percent" \in DOMAIN w THEN w.percent ELSE 0

MissingFile == [kind |-> "missing"]
CorruptFile == [kind |-> "corrupt"]
JsonFile(d) == [kind |-> "json", doc |-> d]

----------------------------------------------------------------------------
(* scrape_usage.py: the Credential Resolver *)

BrowserNames == <<"Chrome", "Brave", "Firefox", "Safari", "Edge">>

\* what one browser_cookie3 call can do: raise, return an empty jar, return a
\* jar without a sessionKey cookie, return a jar with one
BrowserOutcomes == {"raise", "empty", "nokey", "key"}

\* the value of the sessionKey cookie found in a browser's jar
CookieOf(name) == "cookie:" \o name

get_manual_session_key(cfg) ==
    IF cfg.kind = "missing" THEN NoneStr
    ELSE IF cfg.kind = "corrupt" THEN NoneStr
    ELSE GetStr(cfg.doc, "session_key")

\* The loop of get_browser_cookies from browser i on: the browsers probed
\* and the value returned.
RECURSIVE BrowserLoop_AbortOnRaise(_, _, _)
BrowserLoop_AbortOnRaise(e, i, probed) ==
    IF i > Len(BrowserNames) THEN [value |-> NoneStr, probed |-> probed]
    ELSE IF e.browsers[i] = "key"
         THEN [value |-> CookieOf(BrowserNames[i]),
               probed |-> Append(probed, BrowserNames[i])]
         ELSE IF e.browsers[i] = "raise"
         THEN [value |-> NoneStr, probed |-> Append(probed, BrowserNames[i])]
         ELSE BrowserLoop_AbortOnRaise(e, i + 1, Append(probed, BrowserNames[i]))

RECURSIVE BrowserLoop(_, _, _)
BrowserLoop(e, i, probed) ==
    IF i > Len(BrowserNames) THEN [value |-> NoneStr, probed |-> probed]
    ELSE IF e.browsers[i] = "key"
         THEN [value |-> CookieOf(BrowserNames[i]),
               probed |-> Append(probed, BrowserNames[i])]
         ELSE BrowserLoop(e, i + 1, Append(probed, BrowserNames[i]))

get_browser_cookies(e) ==
    IF ~e.lib THEN [value |-> NoneStr, probed |-> <<>>]
    ELSE BrowserLoop(e, 1, <<>>)

\* Lines 131-137 of scrape_usage: the credential, whether the code takes it
\* for a manual one, and the sources probed in order.
ResolveCredential(cfg, e) ==
    LET manual == get_manual_session_key(cfg)
        is_manual == manual /= NoneStr
    IN  IF Truthy(manual)
        THEN [session_key |-> manual, is_manual |-> is_manual,
              probed |-> <<"manual">>]
        ELSE LET b == get_browser_cookies(e)
             IN  [session_key |-> b.value, is_manual |-> is_manual,
                  probed |-> <<"manual">> \o b.probed]

----------------------------------------------------------------------------
(* scrape_usage.py: the Usage Fetcher *)

ErrNoCookies ==
    "Could not get cookies from any browser. Run 'claude-usage-login' to set a session key manually."
ErrKeyExpired == "Session key expired. Run 'claude-usage-login' to set a new one."
ErrNotAuthListing ==
    "Not authenticated. Please log into claude.ai in your browser first."
ErrNotAuthUsage == "Not authenticated. Please log into claude.ai in your browser."
ErrNoOrgs == "No organizations found"
ErrListing(status) ==
    "Failed to fetch organizations (HTTP " \o ToString(status) \o ")"
\* str(e) of an exception raised by the HTTP client or by the JSON decoder
ExcText == "Connection reset by peer"

AuthStatuses == {401, 403}

weekly_fields == <<"seven_day", "seven_day_sonnet", "seven_day_opus">>

\* a truthy JSON value that is not an object: a number, a string, a list
Scalar == [py |-> "scalar"]

\* isinstance(v, dict), of a truthy value
IsObject(v) == v /= None /\ v /= Scalar

\* api.get(field) and isinstance(api[field], dict)
\*               and api[field].get("utilization") is not None
HasUtilization(api, field) ==
    /\ IsObject(GetDict(api, field))
    /\ "utilization" \in DOMAIN api[field]

\* Line 108 calls .get on api["five_hour"] whenever it is truthy, without
\* the isinstance test of line 119: on a value that is not an object the
\* call raises AttributeError.
ParseRaises(api) == GetDict(api, "five_hour") = Scalar

\* The weekly loop of _parse_org_usage from candidate i on.
RECURSIVE WeeklyFrom(_, _)
WeeklyFrom(api, i) ==
    IF i > Len(weekly_fields) THEN None
    ELSE IF HasUtilization(api, weekly_fields[i])
         THEN [percent   |-> api[weekly_fields[i]].utilization,
               resets_at |-> GetStr(api[weekly_fields[i]], "resets_at"),
               source    |-> weekly_fields[i]]
         ELSE WeeklyFrom(api, i + 1)

\* the value returned, or raised = TRUE when the call raises
_parse_org_usage(api) ==
    IF ParseRaises(api) THEN [raised |-> TRUE]
    ELSE [raised  |-> FALSE,
          session |-> IF HasUtilization(api, "five_hour")
                      THEN [percent   |-> api.five_hour.utilization,
                            resets_at |-> GetStr(api.five_hour, "resets_at")]
                      ELSE None,
          weekly  |-> WeeklyFrom(api, 1)]

\* org.get("uuid") or org.get("id")
OrgId(org) == PyOr(GetStr(org, "uuid"), GetStr(org, "id"))

\* org.get("name") or org.get("display_name") or org_id
OrgName(org) ==
    PyOr(PyOr(GetStr(org, "name"), GetStr(org, "display_name")), OrgId(org))

\* the message of the AuthError returned on a 401/403
AuthErrorFor(is_manual, browserText) ==
    IF is_manual THEN ErrKeyExpired ELSE browserText

\* resp.status_code in (401, 403), of a usage response (line 181)
IsAuthFailure_Only401(resp) == resp.status = 401

IsAuthFailure(resp) == resp.status \in AuthStatuses

\* A usage response: status 0 stands for session.get raising, json_ok for
\* resp.json() parsing.

\* org_entry as appended at line 188: filled from a parsed 200 response
\* (lines 177-180), left with both metrics None otherwise (another status,
\* or an exception of the request, the decoder or the parser caught at
\* line 185)
EntryFor_DropsWeekly(org, resp) ==
    LET blank == [id |-> OrgId(org), name |-> OrgName(org),
                  session |-> None, weekly |-> None]
    IN  IF resp.status = 200 /\ resp.json_ok /\ ~_parse_org_usage(resp.body).raised
        THEN [blank EXCEPT !.session = _parse_org_usage(resp.body).session]
        ELSE blank

EntryFor(org, resp) ==
    LET blank == [id |-> OrgId(org), name |-> OrgName(org),
                  session |-> None, weekly |-> None]
    IN  IF resp.status = 200 /\ resp.json_ok /\ ~_parse_org_usage(resp.body).raised
        THEN [blank EXCEPT !.session = _parse_org_usage(resp.body).session,
                           !.weekly = _parse_org_usage(resp.body).weekly]
        ELSE blank

\* The per-organization loop of scrape_usage (lines 161-196) from entry i
\* of the listing on: the value returned, the usage requests issued (by
\* organization id, in order) and whether the cache file was written.
RECURSIVE OrgLoop(_, _, _, _, _)
OrgLoop(e, is_manual, i, orgs_result, requests) ==
    IF i > Len(e.listing.orgs)
    THEN [ret |-> [orgs |-> orgs_result], requests |-> requests, wrote |-> TRUE]
    ELSE
      LET org == e.listing.orgs[i]
          org_id == OrgId(org)
          resp == e.usage[i]
          asked == Append(requests, org_id)
      IN  IF ~Truthy(org_id)
          THEN OrgLoop(e, is_manual, i + 1, orgs_result, requests)
          ELSE IF resp.status /= 200 /\ IsAuthFailure(resp)
          THEN [ret |-> [error |-> AuthErrorFor(is_manual, ErrNotAuthUsage)],
                requests |-> asked, wrote |-> FALSE]
          ELSE OrgLoop(e, is_manual, i + 1,
                       Append(orgs_result, EntryFor(org, resp)), asked)

\* scrape_usage(): the resolver's outcome, the value returned, the usage
\* requests issued and whether CACHE_FILE was written (with ret).
scrape_usage(cfg, e) ==
    LET cred == ResolveCredential(cfg, e)
        none == [cred |-> cred, requests |-> <<>>, wrote |-> FALSE, listed |-> FALSE]
        fail(msg) == [none EXCEPT !.listed = TRUE] @@ [ret |-> [error |-> msg]]
    IN  IF cred.session_key = NoneStr
        THEN none @@ [ret |-> [error |-> ErrNoCookies]]
        ELSE IF e.listing.status = 0 THEN fail(ExcText)
        ELSE IF e.listing.status \in AuthStatuses
        THEN fail(AuthErrorFor(cred.is_manual, ErrNotAuthListing))
        ELSE IF e.listing.status /= 200 THEN fail(ErrListing(e.listing.status))
        ELSE IF ~e.listing.json_ok THEN fail(ExcText)
        ELSE IF e.listing.orgs = <<>> THEN fail(ErrNoOrgs)
        ELSE LET r == OrgLoop(e, cred.is_manual, 1, <<>>, <<>>)
             IN  [cred |-> cred, requests |-> r.requests, wrote |-> r.wrote,
                  listed |-> TRUE, ret |-> r.ret]

----------------------------------------------------------------------------
(* claude-usage.5m.py: the plugin *)

WARN_THRESHOLD == 75

\* Python's True and None in the "cached" slot of a snapshot
PyTrue == "True"

DefaultConfig == [display_org |-> "auto"]

\* load_config(): the dict returned; a missing or unparseable file is
\* replaced by the default document (ConfigAfterLoad).
load_config(cfg) == IF cfg.kind = "json" THEN cfg.doc ELSE DefaultConfig

ConfigAfterLoad(cfg) == IF cfg.kind = "json" THEN cfg ELSE JsonFile(DefaultConfig)

\* max(orgs, key=session percent) scanning from entry i on: the first
\* maximal element wins.
RECURSIVE MaxFrom_LastWins(_, _, _)
MaxFrom_LastWins(orgs, i, best) ==
    IF i > Len(orgs) THEN best
    ELSE IF PercentOf(orgs[i], "session") >= PercentOf(best, "session")
         THEN MaxFrom_LastWins(orgs, i + 1, orgs[i])
         ELSE MaxFrom_LastWins(orgs, i + 1, best)

RECURSIVE MaxFrom(_, _, _)
MaxFrom(orgs, i, best) ==
    IF i > Len(orgs) THEN best
    ELSE IF PercentOf(orgs[i], "session") > PercentOf(best, "session")
         THEN MaxFrom(orgs, i + 1, orgs[i])
         ELSE MaxFrom(orgs, i + 1, best)

PinnedFrom_Never(orgs, display, i) == None

\* the for loop of get_display_org from entry i on
RECURSIVE PinnedFrom(_, _, _)
PinnedFrom(orgs, display, i) ==
    IF i > Len(orgs) THEN None
    ELSE IF orgs[i].id = display THEN orgs[i]
         ELSE PinnedFrom(orgs, display, i + 1)

get_display_org(orgs, conf) ==
    IF orgs = <<>> THEN None
    ELSE LET display == IF "display_org" \in DOMAIN conf
                        THEN conf.display_org ELSE "auto"
             pinned == IF display /= "auto" THEN PinnedFrom(orgs, display, 1)
                       ELSE None
         IN  IF pinned /= None THEN pinned ELSE MaxFrom(orgs, 2, orgs[1])

\* what stderr holds when the scraper process dies with a traceback
StderrText == "ModuleNotFoundError: No module named 'curl_cffi'"

\* The messages main() can be handed as usage["error"].
ErrorTexts ==
    {ErrNoCookies, ErrKeyExpired, ErrNotAuthListing, ErrNotAuthUsage, ErrNoOrgs,
     ErrListing(500), ExcText, "Timeout", StderrText}

\* needle in text (for the needles main() looks for, over ErrorTexts): no
\* message holds "Not logged in" or "login.py"; the one that holds
\* "expired" is the manual-key AuthError
Holding(needle) ==
    CASE needle = "Not logged in" -> {}
      [] needle = "login.py" -> {}
      [] needle = "expired" -> {ErrKeyExpired}

Contains(text, needle) == text \in Holding(needle)

\* needle in text.lower(): no message of ErrorTexts holds "expired" in
\* another case
ContainsLower(text, needle) == Contains(text, needle)

\* Lines 162-181 of main: the menu bar title and the first line of the
\* dropdown shown for an error.
Present(error_msg) ==
    IF Contains(error_msg, "Not logged in") \/ Contains(error_msg, "login.py")
    THEN [title |-> "Login", line |-> "Not logged in to Claude.ai"]
    ELSE IF ContainsLower(error_msg, "expired")
    THEN [title |-> "Expired", line |-> "Session expired"]
    ELSE [title |-> "Error", line |-> "Error: " \o error_msg]

DefaultState ==
    [notified_session |-> FALSE, notified_weekly |-> FALSE, last_session_pct |-> 0]

load_notification_state(st) == IF st.kind = "json" THEN st.doc ELSE DefaultState

\* How the scraper process can end: it exits 0 having printed the result of
\* scrape_usage(); it dies before scrape_usage() runs; it is killed by the
\* 60 s timeout while resolving or fetching; it is killed by the timeout
\* after scrape_usage() has returned.
ProcOutcomes == {"exit0", "crash", "timeout", "timeout_late"}

\* CACHE_FILE after a run of scrape_usage() that returned (lines 190-194
\* of scrape_usage.py: the write sits after the loop, on the success path)
CacheAfter_Ungated(sc, cacheFile) == JsonFile(sc.ret)

CacheAfter(sc, cacheFile) == IF sc.wrote THEN JsonFile(sc.ret) ELSE cacheFile

\* run_scraper(): the dict returned, CACHE_FILE after the subprocess, and
\* the run of scrape_usage() inside it (ran = FALSE when it never returned).
run_scraper(cfg, cacheFile, e) ==
    LET sc == scrape_usage(cfg, e)
        written == CacheAfter(sc, cacheFile)
        norun == [ran |-> FALSE]
    IN  CASE e.proc = "exit0" ->
               [usage |-> sc.ret, cache |-> written, sc |-> [ran |-> TRUE] @@ sc]
          [] e.proc = "timeout_late" ->
               [usage |-> [error |-> "Timeout"], cache |-> written,
                sc |-> [ran |-> TRUE] @@ sc]
          [] e.proc = "timeout" ->
               [usage |-> [error |-> "Timeout"], cache |-> cacheFile, sc |-> norun]
          [] OTHER ->
               [usage |-> [error |-> StderrText], cache |-> cacheFile, sc |-> norun]

\* Lines 152-160 of main: the fallback to the cached document.
CacheUsable(cacheFile) ==
    /\ cacheFile.kind = "json"
    /\ "error" \notin DOMAIN cacheFile.doc

FallBack_AnyDocument(usage, cacheFile) ==
    IF "error" \in DOMAIN usage /\ cacheFile.kind = "json"
    THEN [cached |-> PyTrue] @@ cacheFile.doc
    ELSE usage

FallBack_Unmarked(usage, cacheFile) ==
    IF "error" \in DOMAIN usage /\ cacheFile.kind /= "missing" /\ CacheUsable(cacheFile)
    THEN cacheFile.doc
    ELSE usage

FallBack(usage, cacheFile) ==
    IF "error" \in DOMAIN usage /\ cacheFile.kind /= "missing" /\ CacheUsable(cacheFile)
    THEN [cached |-> PyTrue] @@ cacheFile.doc
    ELSE usage

_migrate_legacy_cache_Rewraps(usage) ==
    [orgs |-> << [id |-> IF "org_id" \in DOMAIN usage
                         THEN usage.org_id ELSE "unknown",
                  name |-> "Default",
                  session |-> GetDict(usage, "session"),
                  weekly |-> GetDict(usage, "weekly")] >>,
     cached |-> GetStr(usage, "cached")]

_migrate_legacy_cache_NoSentinel(usage) ==
    IF "orgs" \in DOMAIN usage THEN usage
    ELSE [orgs |-> << [id |-> GetStr(usage, "org_id"),
                       name |-> "Default",
                       session |-> GetDict(usage, "session"),
                       weekly |-> GetDict(usage, "weekly")] >>,
          cached |-> GetStr(usage, "cached")]

_migrate_legacy_cache(usage) ==
    IF "orgs" \in DOMAIN usage THEN usage
    ELSE [orgs |-> << [id |-> IF "org_id" \in DOMAIN usage
                              THEN usage.org_id ELSE "unknown",
                       name |-> "Default",
                       session |-> GetDict(usage, "session"),
                       weekly |-> GetDict(usage, "weekly")] >>,
          cached |-> GetStr(usage, "cached")]

\* One metric of lines 200-211: the flag after, and whether
\* send_notification was called.
Fires_IgnoresFlag(pct, flag) == pct >= WARN_THRESHOLD

Fires(pct, flag) == pct >= WARN_THRESHOLD /\ ~flag

Rearms_AtHalf(pct) == 2 * pct < WARN_THRESHOLD

Rearms_Inclusive(pct) == 10 * pct <= 8 * WARN_THRESHOLD

\* pct < WARN_THRESHOLD * 0.8, in tenths
Rearms(pct) == 10 * pct < 8 * WARN_THRESHOLD

ReconcileMetric_KeepsFlag(pct, flag) ==
    IF Fires(pct, flag) THEN [flag |-> flag, alert |-> TRUE]
    ELSE IF Rearms(pct) THEN [flag |-> FALSE, alert |-> FALSE]
    ELSE [flag |-> flag, alert |-> FALSE]

ReconcileMetric(pct, flag) ==
    IF Fires(pct, flag) THEN [flag |-> TRUE, alert |-> TRUE]
    ELSE IF Rearms(pct) THEN [flag |-> FALSE, alert |-> FALSE]
    ELSE [flag |-> flag, alert |-> FALSE]

\* Lines 190-214 of main: the state written and the notifications sent.
Reconcile(st, session_pct, weekly_pct, org_label) ==
    LET s == ReconcileMetric(session_pct, st.notified_session)
        w == ReconcileMetric(weekly_pct, st.notified_weekly)
    IN  [state |-> [notified_session |-> s.flag, notified_weekly |-> w.flag,
                    last_session_pct |-> session_pct],
         alerts |->
            (IF s.alert THEN << [metric |-> "session", pct |-> session_pct,
                                 org |-> org_label] >> ELSE <<>>)
            \o
            (IF w.alert THEN << [metric |-> "weekly", pct |-> weekly_pct,
                                 org |-> org_label] >> ELSE <<>>)]

----------------------------------------------------------------------------
(* Inputs *)

\* the longest organization listing the fetcher is run on
MaxOrgs == 3

\* functions with domain 1..k, k <= n, into S (sequences of at most n)
SeqsUpTo(S, n) == UNION {[1..k -> S] : k \in 0..n}

Window(u) == [utilization |-> u, resets_at |-> "soon"]

\* a response to GET /organizations/{id}/usage
Ok(api) == [status |-> 200, json_ok |-> TRUE, body |-> api]
Status(n) == [status |-> n, json_ok |-> TRUE, body |-> [detail |-> None]]
Unparseable == [status |-> 200, json_ok |-> FALSE, body |-> [detail |-> None]]
Raises == Status(0)

NoBrowser == [i \in 1..Len(BrowserNames) |-> "empty"]
OnlyBrowser(k) == [NoBrowser EXCEPT ![k] = "key"]

NoEnv == [proc |-> "none"]
NoScrape == [ran |-> FALSE]
NoCycle == [kind |-> "idle"]
NoHist == [session |-> "armed", weekly |-> "armed"]
NoSince == [session |-> "none", weekly |-> "none"]
NoInv == <<>>

----------------------------------------------------------------------------
(* The plugin, one invocation per step *)

\* the percent levels a poll cycle sees: re-arm zone, dead zone, fire zone
Levels == {59, 60, 75}

\* usage payloads of the first organization: every pair of levels, and a
\* session-less payload
CyclePayloads ==
    {[five_hour |-> Window(s), seven_day |-> Window(w)] : s \in Levels, w \in Levels}
    \cup {[five_hour |-> None, seven_day_opus |-> Window(w)] : w \in Levels}

\* usage payloads of the second organization
OtherPayloads == {[five_hour |-> Window(s)] : s \in {60, 75}}

Org1 == [uuid |-> "o1", name |-> "Acme"]
Org2 == [id |-> "o2"]

\* what the second organization of a two-entry listing goes with
PairedPayloads ==
    {[five_hour |-> Window(s), seven_day |-> Window(w)] :
        s \in {60, 75}, w \in {59, 75}}

CycleEnvs ==
    LET base(b, pr, l, u) ==
            [lib |-> TRUE, browsers |-> b, proc |-> pr, listing |-> l, usage |-> u]
        listing(st, os) == [status |-> st, json_ok |-> TRUE, orgs |-> os]
    IN  {base(OnlyBrowser(1), "exit0", listing(200, <<Org1>>), <<r>>) :
            r \in {Ok(a) : a \in CyclePayloads} \cup {Status(500), Status(401)}}
        \cup
        {base(OnlyBrowser(1), pr, listing(200, <<Org1>>), <<Ok(a)>>) :
            pr \in ProcOutcomes \ {"exit0"},
            a \in {[five_hour |-> Window(s), seven_day |-> Window(60)] : s \in {59, 75}}}
        \cup
        {base(OnlyBrowser(1), "exit0", listing(200, <<Org1, Org2>>), <<r1, r2>>) :
            r1 \in {Ok(a) : a \in PairedPayloads},
            r2 \in {Ok(a) : a \in OtherPayloads} \cup {Unparseable}}
        \cup
        {base(b, "exit0", listing(st, <<>>), <<>>) :
            b \in {NoBrowser, OnlyBrowser(3)}, st \in {200, 403, 500}}

\* how far a metric has got: armed, fired (alert sent), held (a later cycle
\* in the fire zone sent nothing), rearmed (flag cleared after firing),
\* refired (alert sent after re-arming)
HistAfter(h, pct, flagBefore, r) ==
    IF r.alert THEN (IF h \in {"rearmed", "refired"} THEN "refired" ELSE "fired")
    ELSE IF pct >= WARN_THRESHOLD /\ h = "fired" THEN "held"
    ELSE IF flagBefore /\ ~r.flag THEN "rearmed"
    ELSE h

\* what the reconciled cycles have seen of a metric since its last alert:
\* "none" no alert so far, "alerted" an alert and no cycle below 60 since,
\* "dipped" an alert and a cycle below 60 since
SinceAfter(s, pct, alerts, metric) ==
    IF \E i \in DOMAIN alerts : alerts[i].metric = metric THEN "alerted"
    ELSE IF pct < 60 /\ s = "alerted" THEN "dipped"
    ELSE s

\* main() without --set-org.  Each value main() computes once is bound once.
PollCycle(e) ==
    \E conf \in {load_config(config)}, cfgFile \in {ConfigAfterLoad(config)} :
    \E run \in {run_scraper(cfgFile, cache, e)} :
    \E usage0 \in {FallBack(run.usage, run.cache)} :
    \E failed \in {"error" \in DOMAIN run.usage} :
        /\ config' = cfgFile
        /\ cache' = run.cache
        /\ scrape' = run.sc
        /\ UNCHANGED <<env, pc, inv>>
        /\ IF "error" \in DOMAIN usage0
           THEN /\ cycle' = [kind |-> "error", fetch_failed |-> failed,
                             fetch_error |-> run.usage.error,
                             error |-> usage0.error,
                             shown |-> Present(usage0.error)]
                /\ UNCHANGED <<state, hist, since>>
           ELSE \E usage \in {_migrate_legacy_cache(usage0)} :
                \E display_org \in {get_display_org(usage.orgs, conf)} :
                \E st \in {load_notification_state(state)} :
                \E session_pct \in {IF display_org /= None
                                    THEN PercentOf(display_org, "session") ELSE 0} :
                \E weekly_pct \in {IF display_org /= None
                                   THEN PercentOf(display_org, "weekly") ELSE 0} :
                \E org_label \in {IF display_org /= None
                                  THEN display_org.name ELSE "?"} :
                \E rec \in {Reconcile(st, session_pct, weekly_pct, org_label)} :
                    /\ state' = JsonFile(rec.state)
                    /\ cycle' = [kind |-> "shown", fetch_failed |-> failed,
                                 usage |-> usage,
                                 cached |-> GetStr(usage, "cached") = PyTrue,
                                 selected |-> display_org,
                                 session_pct |-> session_pct,
                                 weekly_pct |-> weekly_pct,
                                 alerts |-> rec.alerts]
                    /\ hist' =
                        [session |-> HistAfter(hist.session, session_pct,
                                        st.notified_session,
                                        ReconcileMetric(session_pct, st.notified_session)),
                         weekly |-> HistAfter(hist.weekly, weekly_pct,
                                        st.notified_weekly,
                                        ReconcileMetric(weekly_pct, st.notified_weekly))]
                    /\ since' =
                        [session |-> SinceAfter(since.session, session_pct,
                                        rec.alerts, "session"),
                         weekly |-> SinceAfter(since.weekly, weekly_pct,
                                        rec.alerts, "weekly")]

\* the values --set-org is given: auto, the two organizations of the
\* listings, and an organization that has left them
DisplayChoices == {"auto", "o1", "o2", "gone"}

\* handle_set_org() writing a fresh document
SetOrg_FreshDocument(value) ==
    /\ config' = JsonFile([display_org |-> value])
    /\ cycle' = [kind |-> "setorg", value |-> value]
    /\ UNCHANGED <<cache, state, env, pc, scrape, hist, since, inv>>

\* main() with --set-org value: handle_set_org() and exit
SetOrg(value) ==
    /\ config' = JsonFile([display_org |-> value] @@ load_config(config))
    /\ cycle' = [kind |-> "setorg", value |-> value]
    /\ UNCHANGED <<cache, state, env, pc, scrape, hist, since, inv>>

Poll == \E e \in CycleEnvs : PollCycle(e)

Choose == \E v \in DisplayChoices : SetOrg(v)

\* a cache document left by the single-organization version of the plugin
LegacyDoc == [session |-> [percent |-> 75, resets_at |-> "soon"],
              weekly |-> None, org_id |-> "o1"]

\* a notification state left by earlier cycles: the session alert sent
OldState ==
    [notified_session |-> TRUE, notified_weekly |-> FALSE, last_session_pct |-> 75]

InitCaches ==
    {MissingFile, CorruptFile, JsonFile(LegacyDoc),
     JsonFile([error |-> ErrNoCookies])}

Init ==
    /\ config \in {MissingFile,
                   JsonFile([display_org |-> "auto", session_key |-> "sk-manual"])}
    /\ cache \in InitCaches
    /\ state \in {MissingFile, CorruptFile, JsonFile(OldState)}
    /\ env = NoEnv
    /\ pc = "idle"
    /\ scrape = NoScrape
    /\ cycle = NoCycle
    /\ hist = (IF state = JsonFile(OldState)
               THEN [NoHist EXCEPT !.session = "fired"] ELSE NoHist)
    /\ since = (IF state = JsonFile(OldState)
                THEN [NoSince EXCEPT !.session = "alerted"] ELSE NoSince)
    /\ inv = NoInv

Next == Poll \/ Choose

Spec == Init /\ [][Next]_vars

----------------------------------------------------------------------------
(* Properties of the poll cycles (specification Spec) *)

Metrics == {"session", "weekly"}

\* the notified flag of metric m in a notification-state file, as main() reads it
FlagOf(stFile, m) ==
    IF m = "session" THEN load_notification_state(stFile).notified_session
    ELSE load_notification_state(stFile).notified_weekly

\* the percent of metric m that a reconciled cycle saw
PctOf(c, m) == IF m = "session" THEN c.session_pct ELSE c.weekly_pct

\* the number of notifications a cycle sent for metric m
AlertCount(c, m) == Cardinality({i \in DOMAIN c.alerts : c.alerts[i].metric = m})

FireZone(p) == p >= 75
RearmZone(p) == p < 60
DeadZone(p) == 60 <= p /\ p < 75

\* C1: in a cycle that reaches reconciliation, a metric at 75 or more whose
\* notified flag is false sends exactly one alert and sets the flag; the next
\* reconciled cycle at the same percent sends no alert for that metric.
C1_FiresOnce ==
    [][cycle'.kind = "shown" =>
        \A m \in Metrics :
            /\ (FireZone(PctOf(cycle', m)) /\ ~FlagOf(state, m))
                   => (AlertCount(cycle', m) = 1 /\ FlagOf(state', m))
            /\ (/\ cycle.kind = "shown"
                /\ AlertCount(cycle, m) = 1
                /\ PctOf(cycle', m) = PctOf(cycle, m))
                   => AlertCount(cycle', m) = 0]_vars

\* a metric fired, and the following cycle at the same percent sent nothing
C1_Witness ==
    /\ cycle.kind = "shown"
    /\ hist.session = "held"
    /\ cycle.session_pct = 75
    /\ AlertCount(cycle, "session") = 0
    /\ FlagOf(state, "session")

\* C2: a reconciled cycle below 60 clears a set notified flag, and the first
\* later reconciled cycle at 75 or more sends an alert for that metric again.
C2_Rearms ==
    [][cycle'.kind = "shown" =>
        \A m \in Metrics :
            /\ (FlagOf(state, m) /\ RearmZone(PctOf(cycle', m)))
                   => (~FlagOf(state', m) /\ hist'[m] = "rearmed")
            /\ (hist[m] = "rearmed" /\ FireZone(PctOf(cycle', m)))
                   => (AlertCount(cycle', m) = 1 /\ FlagOf(state', m))]_vars

\* a metric fired, was re-armed below 60 and fired again
C2_Witness ==
    /\ cycle.kind = "shown"
    /\ hist.weekly = "refired"
    /\ AlertCount(cycle, "weekly") = 1
    /\ FlagOf(state, "weekly")

\* C3: a reconciled cycle whose percent is in [60, 75), or at 75 or more with
\* the flag already set, sends no alert for the metric and leaves its flag.
C3_DeadZone ==
    [][cycle'.kind = "shown" =>
        \A m \in Metrics :
            (\/ DeadZone(PctOf(cycle', m))
             \/ FireZone(PctOf(cycle', m)) /\ FlagOf(state, m))
                => (AlertCount(cycle', m) = 0 /\ FlagOf(state', m) = FlagOf(state, m))]_vars

\* a set flag held through a dead-zone cycle
C3_Witness ==
    /\ cycle.kind = "shown"
    /\ cycle.session_pct = 60
    /\ FlagOf(state, "session")
    /\ AlertCount(cycle, "session") = 0

\* the snapshot that a fallback to this cache document must use
CachedSnapshot(doc) ==
    IF "orgs" \in DOMAIN doc
    THEN [orgs |-> doc.orgs, cached |-> PyTrue]
    ELSE [orgs |-> << [id |-> doc.org_id, name |-> "Default",
                       session |-> doc.session, weekly |-> doc.weekly] >>,
          cached |-> PyTrue]

\* C4: when the fetch of a cycle fails and the cache holds a parseable
\* document without an error key, the snapshot used is the cached one with
\* cached = true; the snapshot used is marked cached iff the fetch failed.
C4_CacheFallback ==
    /\ (cycle.kind \in {"shown", "error"} /\ cycle.fetch_failed /\ CacheUsable(cache))
           => (cycle.kind = "shown" /\ cycle.usage = CachedSnapshot(cache.doc))
    /\ cycle.kind = "shown" => (cycle.cached <=> cycle.fetch_failed)

\* a failed fetch fell back to a snapshot an earlier fetch had cached
C4_Witness ==
    /\ cycle.kind = "shown"
    /\ cycle.fetch_failed
    /\ cycle.cached
    /\ "orgs" \in DOMAIN cache.doc
    /\ Len(cycle.usage.orgs) = 2

\* C7: every step leaves the cache alone, except a poll cycle whose
\* scrape_usage() returned a snapshot, after which the cache holds exactly
\* that snapshot (no error key, no cached key).
C7_CacheWrittenOnSuccessOnly ==
    [][IF /\ cycle'.kind \in {"shown", "error"}
          /\ scrape'.ran
          /\ "orgs" \in DOMAIN scrape'.ret
       THEN cache' = JsonFile(scrape'.ret) /\ DOMAIN cache'.doc = {"orgs"}
       ELSE cache' = cache]_vars

\* a fetch with one organization's usage request failed was cached as it is
C7_Witness ==
    /\ cycle.kind = "shown"
    /\ scrape.ran
    /\ "orgs" \in DOMAIN scrape.ret
    /\ \E i \in DOMAIN scrape.ret.orgs :
          scrape.ret.orgs[i].session = None /\ scrape.ret.orgs[i].weekly = None
    /\ cache = JsonFile(scrape.ret)
    /\ ~cycle.cached

\* C13: whatever the cycles are (fresh or cached snapshot, error cycles,
\* changes of the displayed organization), a cycle sends an alert for a
\* metric that has had one before only if some reconciled cycle since that
\* one saw the metric below 60.
C13_NoFlapping ==
    [][cycle'.kind = "shown" =>
        \A m \in Metrics :
            AlertCount(cycle', m) >= 1 => since[m] /= "alerted"]_vars

\* a second weekly alert, sent from a cached snapshot after the displayed
\* organization was changed to one with a low weekly and back
C13_Witness ==
    /\ cycle.kind = "shown"
    /\ cycle.cached
    /\ cycle.weekly_pct = 75
    /\ AlertCount(cycle, "weekly") = 1
    /\ hist.weekly = "refired"
    /\ since.weekly = "alerted"

\* the kinds of error of the fetch, by the message scrape_usage and
\* run_scraper give them
CredentialAbsentTexts == {ErrNoCookies}
AuthErrorTexts == {ErrKeyExpired, ErrNotAuthListing, ErrNotAuthUsage}

\* C15: an error cycle presents the error by its kind: no credential from
\* any source as "not logged in", an AuthError (manual-key or browser
\* message) as "session expired", any other error as the generic error
\* with its message.
C15_PresentedByKind ==
    cycle.kind = "error" =>
        IF cycle.error \in CredentialAbsentTexts
        THEN cycle.shown.title = "Login"
        ELSE IF cycle.error \in AuthErrorTexts
        THEN cycle.shown.title = "Expired"
        ELSE cycle.shown = [title |-> "Error", line |-> "Error: " \o cycle.error]

\* C16: a cycle whose fetch fails while the cache is missing, unparseable
\* or an error record ends as an error cycle showing the error of the fetch
\* itself, sends no alert and leaves the notification-state file as it was.
C16_ErrorCycleFrame ==
    [][(/\ cycle'.kind \in {"shown", "error"}
        /\ cycle'.fetch_failed
        /\ ~CacheUsable(cache'))
           => /\ cycle'.kind = "error"
              /\ cycle'.error = cycle'.fetch_error
              /\ state' = state
              /\ hist' = hist]_vars

\* a timeout with an error record in the cache, after the session alert had
\* been recorded: the flags are still there
C16_Witness ==
    /\ cycle.kind = "error"
    /\ cycle.fetch_failed
    /\ cycle.error = "Timeout"
    /\ cache = JsonFile([error |-> ErrNoCookies])
    /\ state = JsonFile(OldState)

\* the display_org that the config file holds
StoredDisplay(cfgFile) ==
    IF "display_org" \in DOMAIN load_config(cfgFile)
    THEN load_config(cfgFile).display_org ELSE "auto"

\* organization i of the snapshot has the highest session percent, and is
\* the first that has it
FirstHighest(orgs, i) ==
    /\ \A j \in DOMAIN orgs :
          PercentOf(orgs[j], "session") <= PercentOf(orgs[i], "session")
    /\ \A j \in 1..(i - 1) :
          PercentOf(orgs[j], "session") < PercentOf(orgs[i], "session")

\* C19: in every reconciled cycle run with a display_org other than "auto":
\* if it is the id of an organization of the snapshot, that organization is
\* the one selected whatever the percents; if it is not, the selection is
\* the automatic one; either way the cycle leaves the config file, and so
\* the pin, as it was.
C19_PinHonoured ==
    [][(cycle'.kind = "shown" /\ StoredDisplay(config) /= "auto") =>
        /\ config' = config
        /\ IF \E i \in DOMAIN cycle'.usage.orgs :
                 cycle'.usage.orgs[i].id = StoredDisplay(config)
           THEN cycle'.selected.id = StoredDisplay(config)
           ELSE \E i \in DOMAIN cycle'.usage.orgs :
                   /\ FirstHighest(cycle'.usage.orgs, i)
                   /\ cycle'.selected = cycle'.usage.orgs[i]]_vars

\* pinned to o2 while o1 has the higher session percent: o2 is shown and
\* reconciled
C19_Witness ==
    /\ cycle.kind = "shown"
    /\ StoredDisplay(config) = "o2"
    /\ Len(cycle.usage.orgs) = 2
    /\ PercentOf(cycle.usage.orgs[1], "session") = 75
    /\ cycle.selected.id = "o2"
    /\ cycle.session_pct = 60
    /\ state.doc.last_session_pct = 60

\* the keys of the config document other than display_org
OtherKeys(cfgFile) == DOMAIN load_config(cfgFile) \ {"display_org"}

\* C20: --set-org writes the given value as display_org of the config,
\* keeps every other key of the config with its value, leaves the cache
\* and the notification state as they were, and runs no fetch.
C20_SetOrgFrame ==
    [][cycle'.kind = "setorg" =>
        /\ config'.kind = "json"
        /\ config'.doc.display_org = cycle'.value
        /\ DOMAIN config'.doc = OtherKeys(config) \cup {"display_org"}
        /\ \A k \in OtherKeys(config) : config'.doc[k] = config.doc[k]
        /\ cache' = cache
        /\ state' = state
        /\ scrape' = scrape
        /\ hist' = hist]_vars

\* set to o2 with a manual session key in the config, after a cycle had
\* written the cache and the state
C20_Witness ==
    /\ cycle.kind = "setorg"
    /\ cycle.value = "o2"
    /\ config.doc.display_org = "o2"
    /\ "session_key" \in DOMAIN config.doc
    /\ config.doc.session_key = "sk-manual"
    /\ cache.kind = "json"
    /\ state.kind = "json"
    /\ scrape.ran

----------------------------------------------------------------------------
(* The scraper alone: one run of scrape_usage.py (specification SpecFetch) *)

Ghost == [name |-> "Ghost"]

SamplePayload == [five_hour |-> Window(75), seven_day_sonnet |-> Window(60)]

\* a listing entry and the answer to its usage request
FetchSlots ==
    ({Org1} \X {Ok(SamplePayload), Status(401), Status(403), Status(500),
                Raises, Unparseable})
    \cup ({Org2} \X {Ok(SamplePayload), Status(401), Status(500)})
    \cup ({Ghost} \X {Raises})

FetchConfigs ==
    {MissingFile,
     JsonFile([display_org |-> "auto"]),
     JsonFile([display_org |-> "auto", session_key |-> ""]),
     JsonFile([display_org |-> "auto", session_key |-> "sk-manual"])}

FetchEnvs ==
    LET base(b, l, u) ==
            [lib |-> TRUE, browsers |-> b, proc |-> "exit0", listing |-> l, usage |-> u]
    IN  {base(b, [status |-> 200, json_ok |-> TRUE,
                  orgs |-> [i \in DOMAIN sl |-> sl[i][1]]],
              [i \in DOMAIN sl |-> sl[i][2]]) :
            b \in {NoBrowser, OnlyBrowser(1)}, sl \in SeqsUpTo(FetchSlots, MaxOrgs)}
        \cup
        {base(b, [status |-> st, json_ok |-> ok, orgs |-> <<>>], <<>>) :
            b \in {NoBrowser, OnlyBrowser(1)},
            st \in {0, 200, 401, 403, 500}, ok \in BOOLEAN}

\* a snapshot cached by an earlier run
OldSnapshot ==
    [orgs |-> << [id |-> "o1", name |-> "Acme", session |-> None, weekly |-> None] >>]

InitFetch ==
    /\ config \in FetchConfigs
    /\ cache \in {MissingFile, JsonFile(OldSnapshot)}
    /\ env \in FetchEnvs
    /\ state = MissingFile
    /\ pc = "idle"
    /\ scrape = NoScrape
    /\ cycle = NoCycle
    /\ hist = NoHist
    /\ since = NoSince
    /\ inv = NoInv

\* main() of scrape_usage.py
Fetch ==
    /\ pc = "idle"
    /\ \E sc \in {scrape_usage(config, env)} :
          /\ scrape' = [ran |-> TRUE] @@ sc
          /\ cache' = CacheAfter(sc, cache)
    /\ pc' = "done"
    /\ UNCHANGED <<config, state, env, cycle, hist, since, inv>>

SpecFetch == InitFetch /\ [][Fetch]_vars

----------------------------------------------------------------------------
(* The credential resolver alone (specification SpecResolve) *)

InitResolve ==
    /\ config \in FetchConfigs
    /\ cache = MissingFile
    /\ env \in [lib : BOOLEAN, browsers : [1..Len(BrowserNames) -> BrowserOutcomes]]
    /\ state = MissingFile
    /\ pc = "idle"
    /\ scrape = NoScrape
    /\ cycle = NoCycle
    /\ hist = NoHist
    /\ since = NoSince
    /\ inv = NoInv

\* lines 131-137 of scrape_usage()
Resolve ==
    /\ pc = "idle"
    /\ scrape' = [ran |-> TRUE, cred |-> ResolveCredential(config, env)]
    /\ pc' = "done"
    /\ UNCHANGED <<config, cache, state, env, cycle, hist, since, inv>>

SpecResolve == InitResolve /\ [][Resolve]_vars

----------------------------------------------------------------------------
(* Display-organization selection alone (specification SpecSelect) *)

SessionOptions ==
    {None} \cup {[percent |-> p, resets_at |-> "soon"] : p \in {0, 60, 75}}

OrgIds == <<"o1", "o2", "o3", "o4", "o5">>

SelectInputs ==
    {[i \in DOMAIN ss |-> [id |-> OrgIds[i], name |-> OrgIds[i],
                           session |-> ss[i], weekly |-> None]] :
        ss \in SeqsUpTo(SessionOptions, MaxOrgs)}

SelectConfigs ==
    {[display_org |-> "auto"], [display_org |-> "o2"], [display_org |-> "gone"],
     [session_key |-> "sk-manual"]}

InitSelect ==
    /\ config \in {JsonFile(c) : c \in SelectConfigs}
    /\ cache = MissingFile
    /\ env \in {[orgs |-> o] : o \in SelectInputs}
    /\ state = MissingFile
    /\ pc = "idle"
    /\ scrape = NoScrape
    /\ cycle = NoCycle
    /\ hist = NoHist
    /\ since = NoSince
    /\ inv = NoInv

\* line 188 of main()
Select ==
    /\ pc = "idle"
    /\ cycle' = [kind |-> "selected",
                 selected |-> get_display_org(env.orgs, load_config(config))]
    /\ pc' = "done"
    /\ UNCHANGED <<config, cache, state, env, scrape, hist, since, inv>>

SpecSelect == InitSelect /\ [][Select]_vars

----------------------------------------------------------------------------
(* The legacy migrator alone (specification SpecMigrate) *)

LegacyKeys == {"session", "weekly", "org_id", "cached"}

\* the values the keys of a legacy cache document can hold; JSON null is
\* None for the metrics and NoneStr for org_id
LegacyFull ==
    [session : {None, [percent |-> 75, resets_at |-> "soon"]},
     weekly  : {None, [percent |-> 40, resets_at |-> "later"]},
     org_id  : {"abc", "", NoneStr},
     cached  : {PyTrue}]

\* every document over a subset of the legacy keys, the empty one included
LegacyDocs == {[k \in K |-> full[k]] : full \in LegacyFull, K \in SUBSET LegacyKeys}

\* documents of the current shape: as the scraper caches them, as the
\* fallback marks them, and one that carries legacy keys beside orgs
CurrentDocs ==
    {OldSnapshot,
     [orgs |-> <<>>],
     [orgs |-> OldSnapshot.orgs, cached |-> PyTrue],
     [orgs |-> OldSnapshot.orgs, org_id |-> "abc", session |-> None]}

InitMigrate ==
    /\ config = MissingFile
    /\ cache = MissingFile
    /\ env \in {[doc |-> d] : d \in LegacyDocs \cup CurrentDocs}
    /\ state = MissingFile
    /\ pc = "idle"
    /\ scrape = NoScrape
    /\ cycle = NoCycle
    /\ hist = NoHist
    /\ since = NoSince
    /\ inv = NoInv

\* line 184 of main(), and the same call on its own result
Migrate ==
    /\ pc = "idle"
    /\ cycle' = [kind |-> "migrated",
                 once |-> _migrate_legacy_cache(env.doc),
                 twice |-> _migrate_legacy_cache(_migrate_legacy_cache(env.doc))]
    /\ pc' = "done"
    /\ UNCHANGED <<config, cache, state, env, scrape, hist, since, inv>>

SpecMigrate == InitMigrate /\ [][Migrate]_vars

----------------------------------------------------------------------------
(* Normalization of one usage payload (specification SpecParse) *)

UsageFields == {"five_hour"} \cup {weekly_fields[i] : i \in DOMAIN weekly_fields}

\* the utilization that marks each field, so that a percent tells its source
MarkOf(field) ==
    CASE field = "five_hour" -> 120
      [] field = "seven_day" -> 40
      [] field = "seven_day_sonnet" -> 75
      [] field = "seven_day_opus" -> 99

\* what a field of the payload can hold: null, a value that is not an
\* object, an object without utilization, an object with utilization 0 or
\* with the field's mark
FieldValues(field) ==
    {None, Scalar, [resets_at |-> "soon"], Window(0), Window(MarkOf(field))}

\* every payload over a subset of the four fields
ParseInputs ==
    {[k \in K |-> full[k]] :
        full \in [five_hour : FieldValues("five_hour"),
                  seven_day : FieldValues("seven_day"),
                  seven_day_sonnet : FieldValues("seven_day_sonnet"),
                  seven_day_opus : FieldValues("seven_day_opus")],
        K \in SUBSET UsageFields}

InitParse ==
    /\ config = MissingFile
    /\ cache = MissingFile
    /\ env \in {[api |-> a] : a \in ParseInputs}
    /\ state = MissingFile
    /\ pc = "idle"
    /\ scrape = NoScrape
    /\ cycle = NoCycle
    /\ hist = NoHist
    /\ since = NoSince
    /\ inv = NoInv

\* line 178 of scrape_usage(): parsed = _parse_org_usage(resp.json())
Parse ==
    /\ pc = "idle"
    /\ cycle' = [kind |-> "parsed", result |-> _parse_org_usage(env.api)]
    /\ pc' = "done"
    /\ UNCHANGED <<config, cache, state, env, scrape, hist, since, inv>>

SpecParse == InitParse /\ [][Parse]_vars

----------------------------------------------------------------------------
(* Two invocations of main() that overlap (specification SpecRace) *)

\* the timer and a manual refresh each start one
Invocations == {1, 2}

\* the percents of the displayed organization that each invocation fetched
RaceEnvs == [Invocations -> [session_pct : Levels, weekly_pct : Levels]]

\* an invocation that has its snapshot and has not read STATE_FILE yet
FreshInv ==
    [at |-> "fetched", st |-> DefaultState, read_at |-> 0, saved_at |-> 0,
     alerts |-> <<>>]

InitRace ==
    /\ config = JsonFile(DefaultConfig)
    /\ cache = JsonFile(OldSnapshot)
    /\ state \in {MissingFile, JsonFile(OldState)}
    /\ env \in RaceEnvs
    /\ pc = "idle"
    /\ scrape = NoScrape
    /\ cycle = [kind |-> "race", saves |-> 0]
    /\ hist = NoHist
    /\ since = NoSince
    /\ inv = [p \in Invocations |-> FreshInv]

\* line 190 of main(): state = load_notification_state(), after the
\* saves counted so far
RaceLoad(p) ==
    /\ inv[p].at = "fetched"
    /\ inv' = [inv EXCEPT ![p] = [@ EXCEPT !.at = "loaded",
                                           !.st = load_notification_state(state),
                                           !.read_at = cycle.saves]]
    /\ UNCHANGED <<config, cache, state, env, pc, scrape, cycle, hist, since>>

\* lines 193-214 of main(), on the file as it is now instead of the state
\* read at line 190
RaceSave_Rereads(p) ==
    /\ inv[p].at = "loaded"
    /\ \E rec \in {Reconcile(load_notification_state(state), env[p].session_pct,
                              env[p].weekly_pct, "Acme")} :
          /\ state' = JsonFile(rec.state)
          /\ inv' = [inv EXCEPT ![p] = [@ EXCEPT !.at = "saved",
                                                 !.saved_at = cycle.saves + 1,
                                                 !.alerts = rec.alerts]]
    /\ cycle' = [cycle EXCEPT !.saves = @ + 1]
    /\ UNCHANGED <<config, cache, env, pc, scrape, hist, since>>

\* lines 193-214 of main(): reconcile the state read at line 190, send the
\* notifications, save_notification_state(state)
RaceSave(p) ==
    /\ inv[p].at = "loaded"
    /\ \E rec \in {Reconcile(inv[p].st, env[p].session_pct,
                              env[p].weekly_pct, "Acme")} :
          /\ state' = JsonFile(rec.state)
          /\ inv' = [inv EXCEPT ![p] = [@ EXCEPT !.at = "saved",
                                                 !.saved_at = cycle.saves + 1,
                                                 !.alerts = rec.alerts]]
    /\ cycle' = [cycle EXCEPT !.saves = @ + 1]
    /\ UNCHANGED <<config, cache, env, pc, scrape, hist, since>>

NextRace == \E p \in Invocations : RaceLoad(p) \/ RaceSave(p)

SpecRace == InitRace /\ [][NextRace]_vars

----------------------------------------------------------------------------
(* Properties of the scraper (specification SpecFetch) *)

HasCredential == scrape.cred.session_key /= NoneStr

\* the listing request answered 200 with a non-empty, parseable listing
Listed(e) ==
    e.listing.status = 200 /\ e.listing.json_ok /\ e.listing.orgs /= <<>>

\* entry i of the listing has a uuid or an id, so its usage is requested
Requested(e, i) == Truthy(OrgId(e.listing.orgs[i]))

AuthAnswer(e, i) == Requested(e, i) /\ e.usage[i].status \in {401, 403}

\* the usage request of entry k is issued and is the one answered 401/403
AuthAt(e, k) == AuthAnswer(e, k) /\ \A j \in 1..(k - 1) : ~AuthAnswer(e, j)

\* the usage request of entry i fails otherwise: exception, unparseable
\* payload, payload the parser raises on, or a status other than 200/401/403
SoftFailure(e, i) ==
    /\ Requested(e, i)
    /\ \/ e.usage[i].status \notin {200, 401, 403}
       \/ e.usage[i].status = 200 /\ ~e.usage[i].json_ok
       \/ e.usage[i].status = 200 /\ e.usage[i].json_ok
            /\ ParseRaises(e.usage[i].body)

\* the ids of the entries among the first k that have one, in order
IdsUpTo(e, k) ==
    SelectSeq([i \in 1..k |-> OrgId(e.listing.orgs[i])], Truthy)

\* the positions of the listing entries that have an id, in order
Kept(e) ==
    SelectSeq([i \in 1..Len(e.listing.orgs) |-> i], LAMBDA i : Requested(e, i))

\* C5: when the usage request of organization k is answered 401 or 403, the
\* fetch returns an AuthError and no snapshot, no usage request is issued
\* for a later organization, and the cache file is left as it was.
C5_AuthAbortsFetch ==
    [][(pc = "idle" /\ pc' = "done" /\ HasCredential' /\ Listed(env)) =>
        \A k \in DOMAIN env.listing.orgs :
            AuthAt(env, k) =>
                /\ "orgs" \notin DOMAIN scrape'.ret
                /\ scrape'.ret.error \in {ErrKeyExpired, ErrNotAuthUsage}
                /\ scrape'.requests = IdsUpTo(env, k)
                /\ cache' = cache]_vars

\* 401 on organization 2 of 3: two requests issued, the old cache kept
C5_Witness ==
    /\ pc = "done"
    /\ HasCredential
    /\ Listed(env)
    /\ Len(env.listing.orgs) = 3
    /\ \A i \in 1..3 : Requested(env, i)
    /\ env.usage[1].status = 200
    /\ AuthAt(env, 2)
    /\ env.usage[3].status = 200
    /\ Len(scrape.requests) = 2
    /\ "error" \in DOMAIN scrape.ret
    /\ cache = JsonFile(OldSnapshot)

\* the entry of the result that listing entry i must give
ExpectedEntry(e, i, entry) ==
    /\ entry.id = OrgId(e.listing.orgs[i])
    /\ IF SoftFailure(e, i)
       THEN entry.session = None /\ entry.weekly = None
       ELSE /\ entry.session = _parse_org_usage(e.usage[i].body).session
            /\ entry.weekly = _parse_org_usage(e.usage[i].body).weekly

\* some usage request fails with a non-auth failure and none with 401/403
PartialFailure(e) ==
    /\ Listed(e)
    /\ \E i \in DOMAIN e.listing.orgs : SoftFailure(e, i)
    /\ \A i \in DOMAIN e.listing.orgs : ~AuthAnswer(e, i)

\* C6 as claimed: with a non-auth failure of one organization's usage
\* request the fetch returns a snapshot holding every listed organization
\* in listing order, the failed one with both metrics absent, the others
\* with their own metrics.
C6_Original ==
    (pc = "done" /\ HasCredential /\ PartialFailure(env)) =>
        /\ "orgs" \in DOMAIN scrape.ret
        /\ Len(scrape.ret.orgs) = Len(env.listing.orgs)
        /\ \A i \in DOMAIN env.listing.orgs :
              ExpectedEntry(env, i, scrape.ret.orgs[i])

\* C6 as amended: the snapshot holds every listed organization that has a
\* uuid or an id, in listing order (entries with neither are left out), the
\* failed ones with both metrics absent, the others with their own metrics.
C6_PartialFailureAbsorbed ==
    (pc = "done" /\ HasCredential /\ PartialFailure(env)) =>
        /\ "orgs" \in DOMAIN scrape.ret
        /\ Len(scrape.ret.orgs) = Len(Kept(env))
        /\ \A j \in DOMAIN Kept(env) :
              ExpectedEntry(env, Kept(env)[j], scrape.ret.orgs[j])

\* organization 2 of 3 answered 500: three entries, the second one empty
C6_Witness ==
    /\ pc = "done"
    /\ HasCredential
    /\ PartialFailure(env)
    /\ Len(env.listing.orgs) = 3
    /\ \A i \in 1..3 : Requested(env, i)
    /\ env.usage[1].status = 200 /\ env.usage[1].json_ok
    /\ env.usage[2].status = 500
    /\ env.usage[3].status = 200 /\ env.usage[3].json_ok
    /\ Len(scrape.ret.orgs) = 3
    /\ scrape.ret.orgs[2].session = None
    /\ scrape.ret.orgs[2].weekly = None
    /\ scrape.ret.orgs[1].session /= None
    /\ scrape.ret.orgs[3].weekly /= None

\* the fetch ended on a 401/403, of the listing or of a usage request
AuthFailed ==
    /\ HasCredential
    /\ \/ env.listing.status \in {401, 403}
       \/ Listed(env) /\ \E k \in DOMAIN env.listing.orgs : AuthAt(env, k)

\* the credential used is the manual override: a present, non-empty
\* session_key of the config
UsedManual == Truthy(get_manual_session_key(config))

\* C8: on a 401/403 the message is the manual-key-expired one iff the
\* credential used came from the manual override, and the
\* browser-not-authenticated one when it came from a browser cookie store.
C8_AuthMessageBySource ==
    (pc = "done" /\ AuthFailed) =>
        IF UsedManual
        THEN scrape.ret.error = ErrKeyExpired
        ELSE scrape.ret.error \in {ErrNotAuthListing, ErrNotAuthUsage}

\* C17: every organization of a snapshot that a fetch returns has a
\* non-empty id, and no two organizations of it have the same id, whatever
\* the listing.
C17_IdsNonEmptyUnique ==
    (pc = "done" /\ "orgs" \in DOMAIN scrape.ret) =>
        /\ \A i \in DOMAIN scrape.ret.orgs : Truthy(scrape.ret.orgs[i].id)
        /\ \A i \in DOMAIN scrape.ret.orgs, j \in DOMAIN scrape.ret.orgs :
              i /= j => scrape.ret.orgs[i].id /= scrape.ret.orgs[j].id

----------------------------------------------------------------------------
(* Properties of the credential resolver (specification SpecResolve) *)

Sources == <<"manual">> \o BrowserNames

\* source i yields a credential: a non-empty session_key in the config, or
\* a browser jar holding a sessionKey cookie
Yields(cfg, e, i) ==
    IF i = 1 THEN Truthy(get_manual_session_key(cfg))
    ELSE e.browsers[i - 1] = "key"

CredentialOf(cfg, i) ==
    IF i = 1 THEN get_manual_session_key(cfg) ELSE CookieOf(Sources[i])

\* The resolver, run over the first n sources, probed them in order up to
\* the first that yields and returned its credential, or probed all n and
\* returned Absent.
ResolvedOver(n) ==
    IF \E i \in 1..n : Yields(config, env, i)
    THEN LET first == CHOOSE i \in 1..n :
                        /\ Yields(config, env, i)
                        /\ \A j \in 1..(i - 1) : ~Yields(config, env, j)
         IN  /\ scrape.cred.probed = SubSeq(Sources, 1, first)
             /\ scrape.cred.session_key = CredentialOf(config, first)
    ELSE /\ scrape.cred.probed = SubSeq(Sources, 1, n)
         /\ scrape.cred.session_key = NoneStr

\* C9 as claimed: the resolver probes manual override, Chrome, Brave,
\* Firefox, Safari, Edge in that order, stops at the first source that yields
\* a credential and returns it; a source that raises or yields nothing does
\* not stop the scan; Absent is returned exactly when no source yields.
C9_Original == pc = "done" => ResolvedOver(Len(Sources))

\* C9 as amended: that holds when the browser_cookie3 library can be
\* imported; when it cannot, the manual override is the only source probed,
\* and Absent is returned unless it yields.
C9_ResolverOrder ==
    pc = "done" => ResolvedOver(IF env.lib THEN Len(Sources) ELSE 1)

\* no manual key, Chrome raises, Brave has no cookies, Firefox yields:
\* Safari and Edge are not probed
C9_Witness ==
    /\ pc = "done"
    /\ env.lib
    /\ ~Yields(config, env, 1)
    /\ env.browsers[1] = "raise"
    /\ env.browsers[2] = "empty"
    /\ env.browsers[3] = "key"
    /\ env.browsers[5] = "key"
    /\ scrape.cred.probed = <<"manual", "Chrome", "Brave", "Firefox">>
    /\ scrape.cred.session_key = CookieOf("Firefox")

----------------------------------------------------------------------------
(* Properties of the selection (specification SpecSelect) *)

\* the display_org in effect: "auto" when the config does not name one
DisplayOf(cfg) ==
    IF "display_org" \in DOMAIN cfg.doc THEN cfg.doc.display_org ELSE "auto"

SessionPct(org) == IF org.session = None THEN 0 ELSE org.session.percent

\* entry i has the highest session percent, and no earlier entry has it
FirstMaximal(orgs, i) ==
    /\ \A j \in DOMAIN orgs : SessionPct(orgs[j]) <= SessionPct(orgs[i])
    /\ \A j \in 1..(i - 1) : SessionPct(orgs[j]) < SessionPct(orgs[i])

\* C10: with display_org "auto" and at least one organization, the selected
\* organization is the first in listing order among those whose session
\* percent is the highest, an absent session counting as 0.
C10_AutoSelectsFirstMax ==
    (pc = "done" /\ DisplayOf(config) = "auto" /\ env.orgs /= <<>>) =>
        \E i \in DOMAIN env.orgs :
            /\ FirstMaximal(env.orgs, i)
            /\ cycle.selected = env.orgs[i]

\* three organizations, the first without session, the other two tied at
\* the highest percent: the second is selected
C10_Witness ==
    /\ pc = "done"
    /\ DisplayOf(config) = "auto"
    /\ Len(env.orgs) = 3
    /\ env.orgs[1].session = None
    /\ SessionPct(env.orgs[2]) = 75
    /\ SessionPct(env.orgs[3]) = 75
    /\ cycle.selected = env.orgs[2]

----------------------------------------------------------------------------
(* Properties of the migrator (specification SpecMigrate) *)

IsLegacy(doc) == "orgs" \notin DOMAIN doc

\* C11: migrating the result of a migration gives that result again, for
\* legacy and current documents alike, and a document that has an orgs
\* sequence is returned as it is.
C11_MigrateIdempotent ==
    pc = "done" =>
        /\ cycle.twice = cycle.once
        /\ ~IsLegacy(env.doc) => cycle.once = env.doc

\* a legacy document without org_id was wrapped, and wrapping it again
\* changed nothing
C11_Witness ==
    /\ pc = "done"
    /\ DOMAIN env.doc = {"session", "weekly"}
    /\ ~IsLegacy(cycle.once)
    /\ cycle.once.orgs[1].session /= None
    /\ cycle.twice = cycle.once

\* C12: a legacy document (no orgs key) migrates to a snapshot with exactly
\* one organization, named "Default", whose session and weekly are the
\* document's top-level ones (None when missing or null) and whose id is the
\* document's org_id, or the sentinel "unknown" when the document has no
\* org_id key.
C12_LegacyWrapped ==
    (pc = "done" /\ IsLegacy(env.doc)) =>
        /\ Len(cycle.once.orgs) = 1
        /\ cycle.once.orgs[1].name = "Default"
        /\ cycle.once.orgs[1].session = GetDict(env.doc, "session")
        /\ cycle.once.orgs[1].weekly = GetDict(env.doc, "weekly")
        /\ IF "org_id" \in DOMAIN env.doc
           THEN cycle.once.orgs[1].id = env.doc.org_id
           ELSE cycle.once.orgs[1].id = "unknown"

\* a document holding only a session: the sentinel id, the session kept,
\* no weekly
C12_Witness ==
    /\ pc = "done"
    /\ DOMAIN env.doc = {"session"}
    /\ env.doc.session /= None
    /\ cycle.once.orgs[1].id = "unknown"
    /\ cycle.once.orgs[1].session.percent = 75
    /\ cycle.once.orgs[1].weekly = None

----------------------------------------------------------------------------
(* Properties of overlapping invocations (specification SpecRace) *)

\* the notified flag of metric m in a state dict
FlagIn(st, m) == IF m = "session" THEN st.notified_session ELSE st.notified_weekly

\* the percent of metric m that invocation p fetched
RacePct(p, m) == IF m = "session" THEN env[p].session_pct ELSE env[p].weekly_pct

\* the notifications invocation p sent for metric m
RaceAlerts(p, m) ==
    Cardinality({i \in DOMAIN inv[p].alerts : inv[p].alerts[i].metric = m})

\* both invocations read the state before either saved; q saved first, p last
Overlapped(q, p) ==
    /\ inv[q].at = "saved" /\ inv[p].at = "saved"
    /\ inv[q].read_at = 0 /\ inv[p].read_at = 0
    /\ inv[q].saved_at = 1 /\ inv[p].saved_at = 2

\* C14: when two invocations both read the state before either saves it,
\* nothing orders their writes: if both see a metric at 75 or more with the
\* flag they read false, both send the alert of that one crossing; if the
\* first to save sent the alert and the last one sees the metric in
\* [60, 75), the last save puts back the stale false flag over the first
\* one's true.
C14_OverlapUnsafe ==
    \A q \in Invocations, p \in Invocations, m \in Metrics :
        (Overlapped(q, p) /\ ~FlagIn(inv[p].st, m) /\ FireZone(RacePct(q, m))) =>
            /\ RaceAlerts(q, m) = 1
            /\ FireZone(RacePct(p, m)) => RaceAlerts(p, m) = 1
            /\ DeadZone(RacePct(p, m)) => ~FlagOf(state, m)

\* the two invocations both sent the session alert, and the state saved
\* last has lost the weekly flag that the first one set
C14_Witness ==
    /\ Overlapped(1, 2)
    /\ RaceAlerts(1, "session") = 1
    /\ RaceAlerts(2, "session") = 1
    /\ RaceAlerts(1, "weekly") = 1
    /\ RacePct(2, "weekly") = 60
    /\ ~FlagOf(state, "weekly")

----------------------------------------------------------------------------
(* Properties of the normalization (specification SpecParse) *)

\* the field is an object with a utilization
Qualifies(api, field) ==
    /\ field \in DOMAIN api
    /\ "utilization" \in DOMAIN api[field]

\* C18: for every payload, normalization gives a session exactly when
\* five_hour has a utilization, with that percent; and a weekly taken from
\* the first of seven_day, seven_day_sonnet, seven_day_opus that is an
\* object with a utilization (source its name, percent its utilization as
\* it is, 0 included), absent exactly when none of them is.
C18_Normalized ==
    pc = "done" =>
        /\ ~cycle.result.raised
        /\ IF Qualifies(env.api, "five_hour")
           THEN /\ cycle.result.session /= None
                /\ cycle.result.session.percent = env.api.five_hour.utilization
           ELSE cycle.result.session = None
        /\ IF \E i \in DOMAIN weekly_fields : Qualifies(env.api, weekly_fields[i])
           THEN LET first == CHOOSE i \in DOMAIN weekly_fields :
                                /\ Qualifies(env.api, weekly_fields[i])
                                /\ \A j \in 1..(i - 1) :
                                      ~Qualifies(env.api, weekly_fields[j])
                IN  /\ cycle.result.weekly /= None
                    /\ cycle.result.weekly.source = weekly_fields[first]
                    /\ cycle.result.weekly.percent
                          = env.api[weekly_fields[first]].utilization
           ELSE cycle.result.weekly = None

====
